---- MODULE Spec2Model ----
(***************************************************************************)
(* Model of the Conky-maker formatter (src/conky.py): the parameter merge, *)
(* the primitive macro operations, line assembly with its style-closing    *)
(* scan, block assembly into the line buffer and document assembly.        *)
(*                                                                         *)
(* A Python string is modelled as a sequence of one-character strings, so  *)
(* that concatenation, the regular expression scan and number formatting   *)
(* are computed character by character.  A Python value that may be None,  *)
(* a string or an integer is a record tagged by its type.                  *)
(***************************************************************************)
EXTENDS Integers, Sequences, FiniteSets, TLC

VARIABLES
    parameters,        \* self.parameters: the live ConkyFormatterParameters
    conky_text_lines,  \* self.conky_text_lines: the line buffer
    kinds,             \* history: what appended each buffer line
    raised,            \* the exception that ended the render pass, or "none"
    last,              \* history: the last operation, its arguments, what it returned
    merges,            \* history: the partial records merged since construction
    constructed,       \* history: the live parameters right after __init__
    nblocks,           \* history: the number of block calls
    output,            \* the document returned by generate_conky_configuration, or None
    parts,             \* line(*parts): the fragments of a direct call of line
    result,            \* the value that call returned
    relined,           \* line(result): the returned line passed through line again
    pc,                \* position of the direct line call
    objects,           \* the heap: the parameter records and line lists, by identity
    instances          \* the formatters constructed so far: references into the heap

fmtState == <<parameters, conky_text_lines, kinds, raised, merges, constructed, nblocks, output>>
fmtVars == <<parameters, conky_text_lines, kinds, raised, last, merges, constructed, nblocks,
             output>>
lineVars == <<parts, result, relined, pc>>
heapVars == <<objects, instances>>
vars == <<parameters, conky_text_lines, kinds, raised, last, merges, constructed, nblocks, output,
          parts, result, relined, pc, objects, instances>>

---------------------------------------------------------------------------
(* Bounds of the model. *)

\* atoms concatenated into the fragments of one direct line call
MaxAtoms == 4
\* fragments of one direct line call
MaxParts == 2
\* block and set_parameters calls of one render pass
MaxOps == 3
\* set_parameters calls after a construction
MaxMerges == 3
\* block and set_parameters calls made before and between direct primitive calls
MaxSetup == 2
\* lookups chained from the parameter tree
MaxDepth == 3
\* formatter instances constructed in one process
MaxInstances == 2
\* lines in the buffer of one instance, beyond which no block is called on it
MaxLines == 3

---------------------------------------------------------------------------
(* Python values. *)

None == [t |-> "none"]
PyStr(s) == [t |-> "str", v |-> s]
PyInt(n) == [t |-> "int", v |-> n]

Min(S) == CHOOSE x \in S : \A y \in S : x <= y
Max(S) == CHOOSE x \in S : \A y \in S : x >= y

\* ''.join(seq): the concatenation of a sequence of strings
RECURSIVE join(_)
join(seq) == IF seq = <<>> THEN <<>> ELSE Head(seq) \o join(Tail(seq))

\* the characters \w matches, among those the model's strings use
WordChars ==
    {"a", "b", "c", "d", "e", "f", "g", "h", "i", "j", "k", "l", "m", "n", "o", "p", "q",
     "r", "s", "t", "u", "v", "w", "x", "y", "z",
     "A", "B", "C", "D", "E", "F", "G", "H", "I", "J", "K", "L", "M", "N", "O", "P", "Q",
     "R", "S", "T", "U", "V", "W", "X", "Y", "Z",
     "0", "1", "2", "3", "4", "5", "6", "7", "8", "9", "_"}

kw_color == <<"c", "o", "l", "o", "r">>
kw_font == <<"f", "o", "n", "t">>
CLOSE_COLOR == <<"$", "{", "c", "o", "l", "o", "r", "}">>
CLOSE_FONT == <<"$", "{", "f", "o", "n", "t", "}">>

---------------------------------------------------------------------------
(* FONT_COLOR_REGEX = [$]([{]?)(color|font)([^{]*[}]|\b) *)

\* s has the word w at position j
HasAt(s, j, w) == j + Len(w) - 1 <= Len(s) /\ SubSeq(s, j, j + Len(w) - 1) = w

\* [^{]* from position k: the last position of the longest run without "{"
RunEnd(s, k) ==
    LET stops == {j \in k..Len(s) : s[j] = "{"}
    IN  IF stops = {} THEN Len(s) ELSE Min(stops) - 1

\* [^{]*[}] from position k, greedy: the position of the last "}" of that run, 0 if none
LastClose(s, k) ==
    LET closes == {p \in k..RunEnd(s, k) : s[p] = "}"}
    IN  IF closes = {} THEN 0 ELSE Max(closes)

\* \b at position k, which follows the last letter of color or font
WordBoundary(s, k) == k > Len(s) \/ s[k] \notin WordChars

NoMatch == [ok |-> FALSE]

\* the match of the pattern that starts at position i, if there is one
FONT_COLOR_REGEX(s, i) ==
    IF i > Len(s) \/ s[i] # "$" THEN NoMatch
    ELSE
        LET j == IF i + 1 <= Len(s) /\ s[i + 1] = "{" THEN i + 2 ELSE i + 1
            group2 == IF HasAt(s, j, kw_color) THEN "color"
                      ELSE IF HasAt(s, j, kw_font) THEN "font" ELSE "none"
            k == j + (IF group2 = "color" THEN Len(kw_color) ELSE Len(kw_font))
            p == LastClose(s, k)
        IN  IF group2 = "none" THEN NoMatch
            ELSE IF p # 0
                THEN [ok |-> TRUE, group2 |-> group2, group3 |-> SubSeq(s, k, p), end |-> p + 1]
            ELSE IF WordBoundary(s, k)
                THEN [ok |-> TRUE, group2 |-> group2, group3 |-> <<>>, end |-> k]
            ELSE NoMatch

\* FONT_COLOR_REGEX.finditer(s), searching from position i: the non-overlapping
\* matches from left to right
RECURSIVE finditer(_, _)
finditer(s, i) ==
    IF i > Len(s) THEN <<>>
    ELSE LET m == FONT_COLOR_REGEX(s, i)
         IN  IF m.ok THEN <<m>> \o finditer(s, m.end) ELSE finditer(s, i + 1)

---------------------------------------------------------------------------
(* ConkyFormatter.line *)

\* group(3) not in ('', '}')
OpensStyle(group3) == group3 \notin {<<>>, <<"}">>}

\* the inner loop of line over the matches of one fragment
RECURSIVE ScanMatches(_, _)
ScanMatches(ms, changed) ==
    IF ms = <<>> THEN changed
    ELSE LET m == Head(ms)
             next == IF m.group2 = "color"
                         THEN [changed EXCEPT !.color = OpensStyle(m.group3)]
                         ELSE [changed EXCEPT !.font = OpensStyle(m.group3)]
         IN  ScanMatches(Tail(ms), next)

\* the outer loop of line over the fragments
RECURSIVE ScanParts(_, _)
ScanParts(ps, changed) ==
    IF ps = <<>> THEN changed
    ELSE ScanParts(Tail(ps), ScanMatches(finditer(Head(ps), 1), changed))

line(ps) ==
    LET changed == ScanParts(ps, [color |-> FALSE, font |-> FALSE])
    IN  join(ps) \o (IF changed.color THEN CLOSE_COLOR ELSE <<>>)
                 \o (IF changed.font THEN CLOSE_FONT ELSE <<>>)

---------------------------------------------------------------------------
(* Values and formatting shared by the primitives. *)

PyBool(b) == [t |-> "bool", v |-> b]
PyList(items) == [t |-> "list", v |-> items]

\* Python truth value, as tested by "if x:"
truthy(value) ==
    CASE value.t = "none" -> FALSE
      [] value.t = "int" -> value.v # 0
      [] value.t = "bool" -> value.v
      [] OTHER -> value.v # <<>>

DigitChars == <<"0", "1", "2", "3", "4", "5", "6", "7", "8", "9">>

RECURSIVE Digits(_)
Digits(n) ==
    IF n < 10 THEN <<DigitChars[n + 1]>>
    ELSE Digits(n \div 10) \o <<DigitChars[(n % 10) + 1]>>

\* '%d' % n, and str(n) of an integer
format_d(n) == IF n < 0 THEN <<"-">> \o Digits(-n) ELSE Digits(n)

\* str(value)
str(value) ==
    CASE value.t = "str" -> value.v
      [] value.t = "int" -> format_d(value.v)
      [] value.t = "bool" -> IF value.v THEN <<"T", "r", "u", "e">>
                                        ELSE <<"F", "a", "l", "s", "e">>
      [] OTHER -> <<"N", "o", "n", "e">>

\* os.linesep
linesep == <<"\n">>

\* sep.join(seq)
RECURSIVE join_with(_, _)
join_with(sep, seq) ==
    IF seq = <<>> THEN <<>>
    ELSE IF Len(seq) = 1 THEN Head(seq)
    ELSE Head(seq) \o sep \o join_with(sep, Tail(seq))

---------------------------------------------------------------------------
(* ConkyFormatterParameters and its defaults. *)

FieldNames ==
    <<"placement",
      "color_default",
      "color_outline",
      "color_graph_border",
      "color_heading",
      "color_label",
      "color_data",
      "color_time",
      "color_date",
      "color_cpu",
      "color_memory",
      "color_filesystem",
      "font_default",
      "font_heading",
      "font_label",
      "font_data",
      "font_time",
      "font_date",
      "format_time",
      "format_date",
      "meter_width",
      "meter_height",
      "bar_width",
      "bar_height",
      "interval_refresh",
      "interval_network_check",
      "interval_temperature_check",
      "window_width_min",
      "window_height_min",
      "window_outer_margin",
      "window_gap">>

DEFAULT_FORMATTER_PARAMETERS ==
    [placement |-> PyStr(<<"t", "o", "p", "_", "l", "e", "f", "t">>),
     color_default |-> PyStr(<<"0", "0", "0", "0", "0", "0">>),
     color_outline |-> PyStr(<<"8", "0", "8", "0", "8", "0">>),
     color_graph_border |-> PyStr(<<"8", "0", "8", "0", "8", "0">>),
     color_heading |-> PyStr(<<"0", "0", "0", "0", "0", "0">>),
     color_label |-> PyStr(<<"0", "0", "0", "0", "0", "0">>),
     color_data |-> PyStr(<<"0", "0", "0", "0", "0", "0">>),
     color_time |-> PyStr(<<"0", "0", "0", "0", "0", "0">>),
     color_date |-> PyStr(<<"0", "0", "0", "0", "0", "0">>),
     color_cpu |-> PyStr(<<"0", "0", "0", "0", "0", "0">>),
     color_memory |-> PyStr(<<"0", "0", "0", "0", "0", "0">>),
     color_filesystem |-> PyStr(<<"0", "0", "0", "0", "0", "0">>),
     font_default |-> PyStr(<<"F", "r", "e", "e", "S", "a", "n", "s", ":", "s", "i", "z", "e", "=", "1", "0">>),
     font_heading |-> PyStr(<<"F", "r", "e", "e", "S", "a", "n", "s", ":", "s", "i", "z", "e", "=", "1", "1">>),
     font_label |-> PyStr(<<"F", "r", "e", "e", "S", "a", "n", "s", ":", "s", "i", "z", "e", "=", "9">>),
     font_data |-> PyStr(<<"F", "r", "e", "e", "M", "o", "n", "o", "-", "B", "o", "l", "d", ":", "s", "i", "z", "e", "=", "9">>),
     font_time |-> PyStr(<<"F", "r", "e", "e", "M", "o", "n", "o", "-", "B", "o", "l", "d", ":", "s", "i", "z", "e", "=", "4", "4">>),
     font_date |-> PyStr(<<"F", "r", "e", "e", "S", "a", "n", "s", ":", "s", "i", "z", "e", "=", "1", "4">>),
     format_time |-> PyStr(<<"%", "H", ":", "%", "M">>),
     format_date |-> PyStr(<<"%", "c">>),
     meter_width |-> PyInt(100),
     meter_height |-> PyInt(30),
     bar_width |-> PyInt(100),
     bar_height |-> PyInt(10),
     interval_refresh |-> PyInt(1),
     interval_network_check |-> PyInt(3600),
     interval_temperature_check |-> PyInt(600),
     window_width_min |-> PyInt(200),
     window_height_min |-> PyInt(500),
     window_outer_margin |-> PyInt(20),
     window_gap |-> PyInt(20)]

\* dataclasses.fields as a set
Fields == {FieldNames[i] : i \in 1..Len(FieldNames)}

\* ConkyFormatterParameters(**given): every field not given is None
ConkyFormatterParameters(given) ==
    [f \in Fields |-> IF f \in DOMAIN given THEN given[f] ELSE None]

---------------------------------------------------------------------------
(* ConfigDict: the wrapped parameter tree. *)

PyDict(items) == [t |-> "dict", v |-> items]

\* ConfigDict(items): the dict subclass, holding the items as they are given
ConfigDict(items) == [t |-> "ConfigDict", v |-> items]

\* isinstance(data, dict): a ConfigDict is a dict too
is_dict(data) == data.t \in {"dict", "ConfigDict"}

\* a wrapping that returns a list as it is
wrap_data_ListsRaw(data) ==
    IF is_dict(data) THEN ConfigDict(data.v) ELSE data

\* ConfigDict._wrap_data: a dict becomes a ConfigDict with the same items, a
\* list a list of wrapped items, anything else is returned as it is
RECURSIVE wrap_data(_)
wrap_data(data) ==
    IF is_dict(data) THEN ConfigDict(data.v)
    ELSE IF data.t = "list" THEN PyList([i \in 1..Len(data.v) |-> wrap_data(data.v[i])])
    ELSE data

\* dict.get(name): None when the key is absent
dict_get(tree, name) == IF name \in DOMAIN tree.v THEN tree.v[name] ELSE None

\* ConfigDict.__getattr__ and ConfigDict.__getitem__
ConfigDict_getattr(tree, name) == wrap_data(dict_get(tree, name))
ConfigDict_getitem(tree, name) == wrap_data(dict_get(tree, name))

\* target.name and target[name] on any value a lookup may have returned: on a
\* ConfigDict the wrapped lookup; on None, a list or a scalar Python raises
\* AttributeError for the attribute and TypeError for the string index
lookup(target, name, style) ==
    IF target.t = "ConfigDict"
        THEN [returned |-> IF style = "attribute" THEN ConfigDict_getattr(target, name)
                                                  ELSE ConfigDict_getitem(target, name),
              raised |-> "none"]
        ELSE [returned |-> None,
              raised |-> IF style = "attribute" THEN "AttributeError" ELSE "TypeError"]

---------------------------------------------------------------------------
(* ConkyFormatter.set_parameters and ConkyFormatter.__init__ *)

\* "if value is not None"; before it, "if value" and no test at all
Overrides_IfTruthy(value) == truthy(value)
Overrides_Always(value) == TRUE
Overrides(value) == value # None

\* the loop of set_parameters over the fields from position i on
RECURSIVE set_parameters_from(_, _, _)
set_parameters_from(live, partial, i) ==
    IF i > Len(FieldNames) THEN live
    ELSE LET name == FieldNames[i]
             value == partial[name]
         IN  set_parameters_from(
                 IF Overrides(value) THEN [live EXCEPT ![name] = value] ELSE live,
                 partial, i + 1)

set_parameters(live, partial) == set_parameters_from(live, partial, 1)

\* the partial record __init__ builds from the parameter tree
init_overrides(tree) ==
    ConkyFormatterParameters(
        [placement |-> ConfigDict_getattr(tree, "placement"),
         meter_width |-> ConfigDict_getattr(tree, "meter_width"),
         meter_height |-> ConfigDict_getattr(tree, "meter_height"),
         bar_width |-> ConfigDict_getattr(tree, "bar_width"),
         bar_height |-> ConfigDict_getattr(tree, "bar_height"),
         interval_refresh |-> ConfigDict_getattr(tree, "refresh_interval"),
         interval_network_check |-> ConfigDict_getattr(tree, "network_check_interval"),
         interval_temperature_check |-> ConfigDict_getattr(tree, "temperature_check_interval"),
         window_width_min |-> ConfigDict_getattr(tree, "window_width_min"),
         window_height_min |-> ConfigDict_getattr(tree, "window_height_min"),
         window_outer_margin |-> ConfigDict_getattr(tree, "window_outer_margin"),
         window_gap |-> ConfigDict_getattr(tree, "window_gap")])

\* self.parameters after __init__(tree)
init_parameters(tree) == set_parameters(DEFAULT_FORMATTER_PARAMETERS, init_overrides(tree))

---------------------------------------------------------------------------
(* Primitive macro operations. *)

text(value) == str(value)

\* isinstance(value, int): a bool is an int too
is_int(value) == value.t \in {"int", "bool"}

\* the integer '%d' formats: True is 1 and False is 0
int_of(value) == IF value.t = "bool" THEN (IF value.v THEN 1 ELSE 0) ELSE value.v

\* a color that takes every present spec for an explicit color value
color_AlwaysExplicit(color_spec) ==
    IF color_spec = None THEN CLOSE_COLOR
    ELSE <<"$", "{", "c", "o", "l", "o", "r", " ", "#">> \o str(color_spec) \o <<"}">>

color(color_spec) ==
    IF color_spec = None THEN CLOSE_COLOR
    ELSE IF is_int(color_spec)
        THEN <<"$", "{", "c", "o", "l", "o", "r">> \o format_d(int_of(color_spec)) \o <<"}">>
    ELSE <<"$", "{", "c", "o", "l", "o", "r", " ", "#">> \o str(color_spec) \o <<"}">>

font(font_spec) ==
    IF font_spec = None THEN CLOSE_FONT
    ELSE <<"$", "{", "f", "o", "n", "t", " ">> \o str(font_spec) \o <<"}">>

horizontal_rule == <<"$", "h", "r">>

offset(x, y) ==
    (IF truthy(x) THEN <<"$", "{", "o", "f", "f", "s", "e", "t", " ">> \o format_d(x.v) \o <<"}">>
                  ELSE <<>>)
    \o (IF truthy(y)
            THEN <<"$", "{", "v", "o", "f", "f", "s", "e", "t", " ">> \o format_d(y.v) \o <<"}">>
            ELSE <<>>)

\* f' {param}' if param else ''
param_suffix(param) == IF truthy(param) THEN <<" ">> \o str(param) ELSE <<>>

\* a meter that writes the width before the height
meter_WidthFirst(params, graph_type, graph_color, width, height, param) ==
    <<"$", "{", "c", "o", "l", "o", "r", " ", "#">> \o str(params.color_graph_border) \o <<"}">>
    \o <<"$", "{">> \o str(graph_type) \o param_suffix(param)
    \o <<" ">> \o format_d(int_of(width)) \o <<",">> \o format_d(int_of(height))
    \o <<" ">> \o str(graph_color) \o <<" ">> \o str(graph_color) \o <<"}">>

\* '${color #%s}${%s%s %d,%d %s %s}' % (border, graph_type, param, height, width, color, color)
meter(params, graph_type, graph_color, width, height, param) ==
    <<"$", "{", "c", "o", "l", "o", "r", " ", "#">> \o str(params.color_graph_border) \o <<"}">>
    \o <<"$", "{">> \o str(graph_type) \o param_suffix(param)
    \o <<" ">> \o format_d(int_of(height)) \o <<",">> \o format_d(int_of(width))
    \o <<" ">> \o str(graph_color) \o <<" ">> \o str(graph_color) \o <<"}">>

\* an exec that tests "if interval:" in place of "if interval is not None:"
exec_IfTruthy(command, interval) ==
    IF truthy(interval)
        THEN <<"$", "{", "e", "x", "e", "c", "i", " ">> \o format_d(int_of(interval))
                 \o <<" ">> \o str(command) \o <<"}">>
        ELSE <<"$", "{", "e", "x", "e", "c", " ">> \o str(command) \o <<"}">>

exec(command, interval) ==
    IF interval # None
        THEN <<"$", "{", "e", "x", "e", "c", "i", " ">> \o format_d(int_of(interval))
                 \o <<" ">> \o str(command) \o <<"}">>
        ELSE <<"$", "{", "e", "x", "e", "c", " ">> \o str(command) \o <<"}">>

\* f'cpu{cpu_number}'
cpu_param(cpu_number) == PyStr(<<"c", "p", "u">> \o str(cpu_number))

cpu_meter(params, cpu_number) ==
    meter(params, PyStr(<<"c", "p", "u", "g", "r", "a", "p", "h">>), params.color_cpu,
          params.meter_width, params.meter_height, cpu_param(cpu_number))

heading_line(params, heading_text) ==
    line(<<color(params.color_heading),
           font(params.font_heading),
           text(PyStr(heading_text.v \o <<" ">>)),
           horizontal_rule>>)

---------------------------------------------------------------------------
(* flatten_strings and ConkyFormatter.block *)

\* a flattening that yields the strings of the top level only
flatten_strings_TopOnly(item) ==
    LET IsString(sub_item) == sub_item.t # "list"
    IN  IF item.t = "list" THEN SelectSeq(item.v, IsString) ELSE <<item>>

RECURSIVE flatten_strings(_)
flatten_strings(item) ==
    IF item.t = "list"
        THEN join([i \in 1..Len(item.v) |-> flatten_strings(item.v[i])])
        ELSE <<item>>

\* "if self.conky_text_lines: self.conky_text_lines.append('')"; before it, the
\* same without the test
with_separator_Always(buffer) == Append(buffer, <<>>)
with_separator(buffer) == IF buffer # <<>> THEN Append(buffer, <<>>) ELSE buffer

\* first_line_index = len(self.conky_text_lines), as a position counted from 1
first_line_index(buffer) == Len(buffer) + 1

\* the buffer lines a heading and the flattened lines append
heading_lines(params, heading) ==
    IF heading # None THEN <<line(<<heading_line(params, heading)>>)>> ELSE <<>>

content_lines(lines) ==
    LET flat == flatten_strings(lines)
    IN  [i \in 1..Len(flat) |-> line(<<flat[i].v>>)]

\* self.conky_text_lines[index] = ''.join([self.offset(y=vertical_offset), line]);
\* before it, the same with the offset put on a line of its own, and with the
\* offset put on the first line of the buffer
prefix_line_First(buffer, index, vertical_offset) ==
    [buffer EXCEPT ![1] = offset(None, vertical_offset) \o buffer[1]]
prefix_line_OwnLine(buffer, index, vertical_offset) ==
    SubSeq(buffer, 1, index - 1) \o <<offset(None, vertical_offset)>>
        \o SubSeq(buffer, index, Len(buffer))
prefix_line(buffer, index, vertical_offset) ==
    [buffer EXCEPT ![index] = offset(None, vertical_offset) \o buffer[index]]

\* block(*lines, heading, vertical_offset) on a buffer: the buffer it leaves and
\* the exception it raises, if any
block(buffer, params, lines, heading, vertical_offset) ==
    LET separated == with_separator(buffer)
        first == first_line_index(separated)
        filled == separated \o heading_lines(params, heading) \o content_lines(lines)
    IN  IF ~truthy(vertical_offset) THEN [lines |-> filled, raised |-> "none"]
        ELSE IF first > Len(filled) THEN [lines |-> filled, raised |-> "IndexError"]
        ELSE [lines |-> prefix_line(filled, first, vertical_offset), raised |-> "none"]

\* history: what the same call, the number-th block call, appends, line by line
block_kinds(buffer, lines, heading, number) ==
    (IF buffer # <<>> THEN <<[kind |-> "separator", block |-> number]>> ELSE <<>>)
    \o (IF heading # None THEN <<[kind |-> "heading", block |-> number]>> ELSE <<>>)
    \o [i \in 1..Len(flatten_strings(lines)) |-> [kind |-> "content", block |-> number]]

---------------------------------------------------------------------------
(* Document assembly. *)

BASE_CONFIGURATION ==
    <<<<<<"b", "a", "c", "k", "g", "r", "o", "u", "n", "d">>, PyBool(TRUE)>>,
      <<<<"u", "s", "e", "_", "x", "f", "t">>, PyBool(TRUE)>>,
      <<<<"x", "f", "t", "a", "l", "p", "h", "a">>, PyInt(1)>>,
      <<<<"t", "o", "t", "a", "l", "_", "r", "u", "n", "_", "t", "i", "m", "e", "s">>, PyInt(0)>>,
      <<<<"o", "w", "n", "_", "w", "i", "n", "d", "o", "w">>, PyBool(TRUE)>>,
      <<<<"o", "w", "n", "_", "w", "i", "n", "d", "o", "w", "_", "t", "y", "p", "e">>, PyStr(<<"n", "o", "r", "m", "a", "l">>)>>,
      <<<<"o", "w", "n", "_", "w", "i", "n", "d", "o", "w", "_", "h", "i", "n", "t", "s">>, PyStr(<<"u", "n", "d", "e", "c", "o", "r", "a", "t", "e", "d", ",", "b", "e", "l", "o", "w", ",", "s", "t", "i", "c", "k", "y", ",", "s", "k", "i", "p", "_", "t", "a", "s", "k", "b", "a", "r", ",", "s", "k", "i", "p", "_", "p", "a", "g", "e", "r">>)>>,
      <<<<"o", "w", "n", "_", "w", "i", "n", "d", "o", "w", "_", "a", "r", "g", "b", "_", "v", "i", "s", "u", "a", "l">>, PyBool(TRUE)>>,
      <<<<"o", "w", "n", "_", "w", "i", "n", "d", "o", "w", "_", "a", "r", "g", "b", "_", "v", "a", "l", "u", "e">>, PyInt(127)>>,
      <<<<"o", "w", "n", "_", "w", "i", "n", "d", "o", "w", "_", "t", "r", "a", "n", "s", "p", "a", "r", "e", "n", "t">>, PyBool(FALSE)>>,
      <<<<"d", "o", "u", "b", "l", "e", "_", "b", "u", "f", "f", "e", "r">>, PyBool(TRUE)>>,
      <<<<"d", "r", "a", "w", "_", "s", "h", "a", "d", "e", "s">>, PyBool(FALSE)>>,
      <<<<"d", "r", "a", "w", "_", "o", "u", "t", "l", "i", "n", "e">>, PyBool(FALSE)>>,
      <<<<"d", "r", "a", "w", "_", "b", "o", "r", "d", "e", "r", "s">>, PyBool(FALSE)>>,
      <<<<"d", "r", "a", "w", "_", "g", "r", "a", "p", "h", "_", "b", "o", "r", "d", "e", "r", "s">>, PyBool(TRUE)>>,
      <<<<"n", "o", "_", "b", "u", "f", "f", "e", "r", "s">>, PyBool(TRUE)>>,
      <<<<"u", "p", "p", "e", "r", "c", "a", "s", "e">>, PyBool(FALSE)>>,
      <<<<"c", "p", "u", "_", "a", "v", "g", "_", "s", "a", "m", "p", "l", "e", "s">>, PyInt(2)>>,
      <<<<"o", "v", "e", "r", "r", "i", "d", "e", "_", "u", "t", "f", "8", "_", "l", "o", "c", "a", "l", "e">>, PyBool(FALSE)>>,
      <<<<"s", "h", "o", "r", "t", "_", "u", "n", "i", "t", "s">>, PyBool(TRUE)>>,
      <<<<"d", "e", "f", "a", "u", "l", "t", "_", "s", "h", "a", "d", "e", "_", "c", "o", "l", "o", "r">>, PyStr(<<"b", "l", "a", "c", "k">>)>>>>

\* dict(BASE_CONFIGURATION, alignment=..., ...): the entries in insertion order
config_dict(params) ==
    BASE_CONFIGURATION \o
    <<<<<<"a", "l", "i", "g", "n", "m", "e", "n", "t">>, params.placement>>,
      <<<<"b", "o", "r", "d", "e", "r", "_", "o", "u", "t", "e", "r", "_", "m", "a", "r", "g", "i", "n">>,
        params.window_outer_margin>>,
      <<<<"d", "e", "f", "a", "u", "l", "t", "_", "c", "o", "l", "o", "r">>, params.color_default>>,
      <<<<"d", "e", "f", "a", "u", "l", "t", "_", "o", "u", "t", "l", "i", "n", "e", "_", "c", "o", "l", "o", "r">>,
        params.color_outline>>,
      <<<<"f", "o", "n", "t">>, params.font_default>>,
      <<<<"g", "a", "p", "_", "x">>, params.window_gap>>,
      <<<<"g", "a", "p", "_", "y">>, params.window_gap>>,
      <<<<"u", "p", "d", "a", "t", "e", "_", "i", "n", "t", "e", "r", "v", "a", "l">>, params.interval_refresh>>,
      <<<<"m", "i", "n", "i", "m", "u", "m", "_", "w", "i", "d", "t", "h">>, params.window_width_min>>,
      <<<<"m", "i", "n", "i", "m", "u", "m", "_", "h", "e", "i", "g", "h", "t">>, params.window_height_min>>>>

\* str.lower() of str(True) and str(False)
lower_bool(b) == IF b THEN <<"t", "r", "u", "e">> ELSE <<"f", "a", "l", "s", "e">>

\* a rendering without the test for a boolean
value_string_NoBool(value) ==
    IF value.t = "str" THEN <<"'">> \o value.v \o <<"'">>
    ELSE str(value)

value_string(value) ==
    IF value.t = "str" THEN <<"'">> \o value.v \o <<"'">>
    ELSE IF value.t = "bool" THEN lower_bool(value.v)
    ELSE str(value)

\* the loop of conky_config_section: entry i appends its line, after a comma
\* has been added to the line before it when it is not the first
RECURSIVE config_lines(_, _, _)
config_lines(entries, i, lines) ==
    IF i > Len(entries) THEN lines
    ELSE LET withComma == IF i - 1 > 0
                              THEN [lines EXCEPT ![Len(lines)] = lines[Len(lines)] \o <<",">>]
                              ELSE lines
             entry == <<" ", " ", " ", " ">> \o entries[i][1] \o <<" ", "=", " ">>
                          \o value_string(entries[i][2])
         IN  config_lines(entries, i + 1, Append(withComma, entry))

conky_config_section(params) ==
    join_with(linesep,
        Append(config_lines(config_dict(params), 1,
                   <<<<"c", "o", "n", "k", "y", ".", "c", "o", "n", "f", "i", "g", " ", "=", " ", "{">>>>),
               <<"}">>))

\* a text section that leaves the blank lines of the buffer out
conky_text_section_NoBlanks(buffer) ==
    LET NotBlank(text_line) == text_line # <<>>
    IN  join_with(linesep,
            <<<<"c", "o", "n", "k", "y", ".", "t", "e", "x", "t", " ", "=", " ", "[", "[">>>> \o SelectSeq(buffer, NotBlank) \o <<<<"]", "]">>>>)

conky_text_section(buffer) ==
    join_with(linesep,
        <<<<"c", "o", "n", "k", "y", ".", "t", "e", "x", "t", " ", "=", " ", "[", "[">>>>
            \o buffer \o <<<<"]", "]">>>>)

generate_conky_configuration(params, buffer) ==
    join_with(linesep \o linesep, <<conky_config_section(params), conky_text_section(buffer)>>)

---------------------------------------------------------------------------
(* The inputs the operations are called with. *)

\* parameter trees a formatter is constructed from
Trees ==
    {ConfigDict(<<>>),
     ConfigDict([placement |-> PyStr(<<"b", "o", "t", "t", "o", "m", "_", "r", "i", "g", "h", "t">>),
             window_gap |-> PyInt(0)]),
     ConfigDict([refresh_interval |-> PyInt(2), meter_width |-> PyInt(120), hosts |-> PyList(<<>>)])}

\* partial records passed to set_parameters
Partials ==
    {ConkyFormatterParameters(<<>>),
     ConkyFormatterParameters([color_heading |-> PyStr(<<"f", "f", "0", "0", "0", "0">>)]),
     ConkyFormatterParameters([color_heading |-> PyStr(<<>>)]),
     ConkyFormatterParameters([font_heading |-> PyStr(<<"M", "o", "n", "o", ":", "s", "i", "z", "e", "=", "8">>)]),
     ConkyFormatterParameters([meter_width |-> PyInt(0)]),
     ConkyFormatterParameters([meter_width |-> PyInt(50)]),
     ConkyFormatterParameters([placement |-> PyStr(<<"t", "o", "p", "_", "r", "i", "g", "h", "t">>)]),
     ConkyFormatterParameters([color_heading |-> PyStr(<<"0", "0", "f", "f", "0", "0">>),
                               meter_width |-> PyInt(50)])}

\* partial records merged in the middle of a render pass
RenderPartials ==
    {ConkyFormatterParameters(<<>>),
     ConkyFormatterParameters([color_heading |-> PyStr(<<"f", "f", "0", "0", "0", "0">>),
                               font_heading |-> PyStr(<<"M", "o", "n", "o", ":", "s", "i", "z", "e", "=", "8">>)])}

leaf_plain == PyStr(<<"x">>)
leaf_color == PyStr(<<"$", "{", "c", "o", "l", "o", "r", " ", "#", "f", "f", "0", "0", "0", "0", "}", "y">>)
leaf_font == PyStr(<<"$", "{", "f", "o", "n", "t", " ", "M", "o", "n", "o", "}", "z">>)

\* the *lines arguments of block: none, one string, a nested hierarchy
LineArgs ==
    {PyList(<<>>),
     PyList(<<leaf_plain>>),
     PyList(<<PyList(<<leaf_color, PyList(<<>>), PyList(<<leaf_font>>)>>), leaf_plain>>)}

Headings == {None, PyStr(<<"M", "E", "M", "O", "R", "Y">>)}

VerticalOffsets == {None, PyInt(0), PyInt(12)}

\* the atoms the fragments of a direct line call are concatenated from
Atoms ==
    {<<"$", "{", "c", "o", "l", "o", "r">>,
     <<"$", "{", "f", "o", "n", "t">>,
     <<"$", "c", "o", "l", "o", "r">>,
     <<"}">>,
     <<"{">>,
     <<"x">>}

\* the sequences of exactly n atoms
AtomSeqs(n) == [1..n -> Atoms]

\* the ways to cut n atoms into np fragments: the position each fragment ends at
Cuts(n, np) ==
    {c \in [1..np -> 0..n] : c[np] = n /\ \A i \in 1..(np - 1) : c[i] <= c[i + 1]}

\* the fragments a sequence of atoms is cut into
Fragments(atoms, c) ==
    [i \in 1..Len(c) |-> join(SubSeq(atoms, (IF i = 1 THEN 0 ELSE c[i - 1]) + 1, c[i]))]

---------------------------------------------------------------------------
(* The formatter: construction, then block, set_parameters and the final *)
(* generate_conky_configuration of a render pass.                        *)

FormatterInit(trees) ==
    /\ \E tree \in trees :
        /\ parameters = init_parameters(tree)
        /\ constructed = init_parameters(tree)
    /\ conky_text_lines = <<>>
    /\ kinds = <<>>
    /\ raised = "none"
    /\ last = [op |-> "init"]
    /\ merges = <<>>
    /\ nblocks = 0
    /\ output = None

LineIdle ==
    /\ parts = <<>>
    /\ result = <<>>
    /\ relined = <<>>
    /\ pc = "idle"

\* the module is loaded: the heap holds DEFAULT_FORMATTER_PARAMETERS alone
HeapIdle ==
    /\ objects = <<DEFAULT_FORMATTER_PARAMETERS>>
    /\ instances = <<>>

Running == raised = "none" /\ output = None

Block(lines, heading, vertical_offset) ==
    /\ Running
    /\ LET done == block(conky_text_lines, parameters, lines, heading, vertical_offset)
       IN  /\ conky_text_lines' = done.lines
           /\ raised' = done.raised
    /\ kinds' = kinds \o block_kinds(conky_text_lines, lines, heading, nblocks + 1)
    /\ last' = [op |-> "block", lines |-> lines, heading |-> heading,
                vertical_offset |-> vertical_offset]
    /\ nblocks' = nblocks + 1
    /\ UNCHANGED <<parameters, merges, constructed, output, lineVars, heapVars>>

SetParameters(partial) ==
    /\ Running
    /\ parameters' = set_parameters(parameters, partial)
    /\ merges' = Append(merges, partial)
    /\ last' = [op |-> "set_parameters", partial |-> partial]
    /\ UNCHANGED <<conky_text_lines, kinds, raised, constructed, nblocks, output, lineVars,
                   heapVars>>

Generate ==
    /\ Running
    /\ output' = PyStr(generate_conky_configuration(parameters, conky_text_lines))
    /\ last' = [op |-> "generate_conky_configuration"]
    /\ UNCHANGED <<parameters, conky_text_lines, kinds, raised, merges, constructed, nblocks,
                   lineVars, heapVars>>

Init == FormatterInit({ConfigDict(<<>>)}) /\ LineIdle /\ HeapIdle

Next ==
    \/ \E lines \in LineArgs, heading \in Headings, vertical_offset \in VerticalOffsets :
        nblocks + Len(merges) < MaxOps /\ Block(lines, heading, vertical_offset)
    \/ \E partial \in RenderPartials :
        nblocks + Len(merges) < MaxOps /\ SetParameters(partial)
    \/ Generate

Spec == Init /\ [][Next]_vars

---------------------------------------------------------------------------
(* The parameter merge alone: construction from a tree, then merges. *)

InitMerge == FormatterInit(Trees) /\ LineIdle /\ HeapIdle

NextMerge == \E partial \in Partials : Len(merges) < MaxMerges /\ SetParameters(partial)

SpecMerge == InitMerge /\ [][NextMerge]_vars

---------------------------------------------------------------------------
(* Direct calls of line on fragments, and the result passed to line again. *)

InitLine ==
    /\ FormatterInit({ConfigDict(<<>>)})
    /\ \E n \in 0..MaxAtoms, np \in 1..MaxParts :
        \E atoms \in AtomSeqs(n), c \in Cuts(n, np) : parts = Fragments(atoms, c)
    /\ result = <<>>
    /\ relined = <<>>
    /\ pc = "start"
    /\ HeapIdle

CallLine ==
    /\ pc = "start"
    /\ result' = line(parts)
    /\ pc' = "returned"
    /\ UNCHANGED <<parts, relined, fmtVars, heapVars>>

CallLineAgain ==
    /\ pc = "returned"
    /\ relined' = line(<<result>>)
    /\ pc' = "relined"
    /\ UNCHANGED <<parts, result, fmtVars, heapVars>>

NextLine == CallLine \/ CallLineAgain

SpecLine == InitLine /\ [][NextLine]_vars

---------------------------------------------------------------------------
(* Direct calls of the primitives on a formatter in any state: after       *)
(* construction from a tree, merges and block calls.                       *)

uptime == PyStr(<<"u", "p", "t", "i", "m", "e">>)
cpugraph == PyStr(<<"c", "p", "u", "g", "r", "a", "p", "h">>)
diskiograph == PyStr(<<"d", "i", "s", "k", "i", "o", "g", "r", "a", "p", "h">>)
ff0000 == PyStr(<<"f", "f", "0", "0", "0", "0">>)
cpu0 == PyStr(<<"c", "p", "u", "0">>)

Commands == {uptime, PyStr(<<"d", "f", " ", "/">>)}
Intervals == {None, PyInt(0), PyInt(5), PyInt(3600)}
ColorSpecs == {None, PyInt(0), PyInt(3), ff0000, PyStr(<<"h", "e", "a", "d", "i", "n", "g">>)}
FontSpecs == {None, PyStr(<<"M", "o", "n", "o", ":", "s", "i", "z", "e", "=", "8">>),
              PyStr(<<"h", "e", "a", "d", "i", "n", "g">>)}
GraphTypes == {cpugraph, diskiograph}
Widths == {PyInt(100), PyInt(0)}
Heights == {PyInt(25)}
GraphParams == {None, PyStr(<<>>), cpu0}
CpuNumbers == {PyInt(0), PyInt(1)}

\* partial records that change what meter and cpu_meter read
MeterPartials ==
    {ConkyFormatterParameters([color_graph_border |-> PyStr(<<"4", "0", "4", "0", "4", "0">>)]),
     ConkyFormatterParameters([color_cpu |-> PyStr(<<"a", "0", "a", "0", "0", "0">>),
                               meter_height |-> PyInt(25)]),
     ConkyFormatterParameters([meter_width |-> PyInt(50)])}

CallExec(command, interval) ==
    /\ last' = [op |-> "exec", command |-> command, interval |-> interval,
                returned |-> exec(command, interval)]
    /\ UNCHANGED <<fmtState, lineVars, heapVars>>

CallMeter(graph_type, graph_color, width, height, param) ==
    /\ last' = [op |-> "meter", graph_type |-> graph_type, color |-> graph_color,
                width |-> width, height |-> height, param |-> param,
                returned |-> meter(parameters, graph_type, graph_color, width, height, param)]
    /\ UNCHANGED <<fmtState, lineVars, heapVars>>

CallCpuMeter(cpu_number) ==
    /\ last' = [op |-> "cpu_meter", cpu_number |-> cpu_number,
                returned |-> cpu_meter(parameters, cpu_number)]
    /\ UNCHANGED <<fmtState, lineVars, heapVars>>

CallColor(color_spec) ==
    /\ last' = [op |-> "color", color_spec |-> color_spec, returned |-> color(color_spec)]
    /\ UNCHANGED <<fmtState, lineVars, heapVars>>

CallFont(font_spec) ==
    /\ last' = [op |-> "font", font_spec |-> font_spec, returned |-> font(font_spec)]
    /\ UNCHANGED <<fmtState, lineVars, heapVars>>

InitPrimitive == FormatterInit(Trees) /\ LineIdle /\ HeapIdle

NextPrimitive ==
    \/ \E lines \in LineArgs :
        nblocks + Len(merges) < MaxSetup /\ Block(lines, None, None)
    \/ \E partial \in MeterPartials :
        nblocks + Len(merges) < MaxSetup /\ SetParameters(partial)
    \/ \E command \in Commands, interval \in Intervals : CallExec(command, interval)
    \/ \E graph_type \in GraphTypes, width \in Widths, height \in Heights,
          param \in GraphParams : CallMeter(graph_type, ff0000, width, height, param)
    \/ \E cpu_number \in CpuNumbers : CallCpuMeter(cpu_number)
    \/ \E color_spec \in ColorSpecs : CallColor(color_spec)
    \/ \E font_spec \in FontSpecs : CallFont(font_spec)

SpecPrimitive == InitPrimitive /\ [][NextPrimitive]_vars

---------------------------------------------------------------------------
(* Lookups on the wrapped parameter tree, chained.                         *)

eth0 == PyStr(<<"e", "t", "h", "0">>)

\* parameter trees as main wraps them: ConfigDict(parameters_dict)
LookupTrees ==
    {ConfigDict(<<>>),
     ConfigDict([geometry |-> PyDict(<<>>), flag |-> PyBool(FALSE)]),
     ConfigDict([placement |-> PyStr(<<"t", "o", "p", "_", "r", "i", "g", "h", "t">>),
                 geometry |-> PyDict([width_min |-> PyInt(200),
                                      networks |-> PyDict(<<>>)]),
                 networks |-> PyList(<<PyDict([device |-> eth0]),
                                       eth0,
                                       PyList(<<PyDict(<<>>)>>)>>)])}

Keys == {"placement", "geometry", "width_min", "networks", "flag", "missing"}
Styles == {"attribute", "index"}

\* parameters.name or parameters[name]
Lookup(tree, name, style) ==
    /\ last.op = "init"
    /\ last' = [op |-> "lookup", target |-> tree, name |-> name, style |-> style, depth |-> 1,
                returned |-> lookup(tree, name, style).returned]
    /\ raised' = lookup(tree, name, style).raised
    /\ UNCHANGED <<parameters, conky_text_lines, kinds, merges, constructed, nblocks, output,
                   lineVars, heapVars>>

\* one more .name or [name] on what the lookup before returned
ChainLookup(name, style) ==
    /\ last.op = "lookup"
    /\ raised = "none"
    /\ last.depth < MaxDepth
    /\ last' = [op |-> "lookup", target |-> last.returned, name |-> name, style |-> style,
                depth |-> last.depth + 1,
                returned |-> lookup(last.returned, name, style).returned]
    /\ raised' = lookup(last.returned, name, style).raised
    /\ UNCHANGED <<parameters, conky_text_lines, kinds, merges, constructed, nblocks, output,
                   lineVars, heapVars>>

InitLookup == FormatterInit({ConfigDict(<<>>)}) /\ LineIdle /\ HeapIdle

NextLookup ==
    \/ \E tree \in LookupTrees, name \in Keys, style \in Styles : Lookup(tree, name, style)
    \/ \E name \in Keys, style \in Styles : ChainLookup(name, style)

SpecLookup == InitLookup /\ [][NextLookup]_vars

---------------------------------------------------------------------------
(* The settings of the document: construction from a tree, merges of the   *)
(* parameters the settings section reads, then generation.                 *)

SettingsPartials ==
    {ConkyFormatterParameters([placement |-> PyStr(<<"t", "o", "p", "_", "r", "i", "g", "h", "t">>)]),
     ConkyFormatterParameters([color_default |-> PyStr(<<>>)]),
     ConkyFormatterParameters([color_outline |-> PyStr(<<"4", "0", "4", "0", "4", "0">>), font_default |-> PyStr(<<"M", "o", "n", "o", ":", "s", "i", "z", "e", "=", "8">>)]),
     ConkyFormatterParameters([window_gap |-> PyInt(5), window_outer_margin |-> PyInt(0)]),
     ConkyFormatterParameters([interval_refresh |-> PyInt(10)]),
     ConkyFormatterParameters([window_width_min |-> PyInt(300), window_height_min |-> PyInt(0)])}

InitSettings == FormatterInit(Trees) /\ LineIdle /\ HeapIdle

NextSettings ==
    \/ \E partial \in SettingsPartials : Len(merges) < MaxSetup /\ SetParameters(partial)
    \/ Generate

SpecSettings == InitSettings /\ [][NextSettings]_vars

---------------------------------------------------------------------------
(* Several formatters in one process.  The parameter records and the line  *)
(* lists are objects of a heap, and a formatter holds references to them:  *)
(* object 1 is the module's DEFAULT_FORMATTER_PARAMETERS.                  *)

DEFAULT_REF == 1

\* a replace that hands back the object it was given
replace_Alias(heap, ref) == [heap |-> heap, ref |-> ref]

\* dataclasses.replace(obj): a new object with the fields of obj as they are now
replace(heap, ref) == [heap |-> Append(heap, heap[ref]), ref |-> Len(heap) + 1]

\* []: a new empty list
new_list(heap) == [heap |-> Append(heap, <<>>), ref |-> Len(heap) + 1]

\* self.set_parameters(partial) on the record self.parameters refers to
set_parameters_at(heap, ref, partial) ==
    [heap EXCEPT ![ref] = set_parameters(heap[ref], partial)]

\* ConkyFormatter(tree)
Construct(tree) ==
    /\ Len(instances) < MaxInstances
    /\ LET copied == replace(objects, DEFAULT_REF)
           merged == set_parameters_at(copied.heap, copied.ref, init_overrides(tree))
           listed == new_list(merged)
       IN  /\ objects' = listed.heap
           /\ instances' = Append(instances,
                                  [parameters |-> copied.ref, conky_text_lines |-> listed.ref])
    /\ last' = [op |-> "init", instance |-> Len(instances) + 1, tree |-> tree]
    /\ UNCHANGED <<fmtState, lineVars>>

\* instances[k].set_parameters(partial)
InstanceSetParameters(k, partial) ==
    /\ objects' = set_parameters_at(objects, instances[k].parameters, partial)
    /\ last' = [op |-> "set_parameters", instance |-> k, partial |-> partial]
    /\ UNCHANGED <<fmtState, lineVars, instances>>

\* instances[k].block(*lines, heading=heading)
InstanceBlock(k, lines, heading) ==
    /\ Len(objects[instances[k].conky_text_lines]) < MaxLines
    /\ objects' =
           [objects EXCEPT ![instances[k].conky_text_lines] =
               block(@, objects[instances[k].parameters], lines, heading, None).lines]
    /\ last' = [op |-> "block", instance |-> k, lines |-> lines, heading |-> heading]
    /\ UNCHANGED <<fmtState, lineVars, instances>>

InitInstances == FormatterInit({ConfigDict(<<>>)}) /\ LineIdle /\ HeapIdle

NextInstances ==
    \/ \E tree \in Trees : Construct(tree)
    \/ \E k \in 1..Len(instances), partial \in RenderPartials : InstanceSetParameters(k, partial)
    \/ \E k \in 1..Len(instances) : InstanceBlock(k, PyList(<<leaf_plain>>), None)

SpecInstances == InitInstances /\ [][NextInstances]_vars

---------------------------------------------------------------------------
(* Line assembly: the claims about line. *)

Returned == pc \in {"returned", "relined"}

\* whether the last color macro and the last font macro of a whole text, found by
\* the detection rule of line, open a style
OpenStyles(s) == ScanMatches(finditer(s, 1), [color |-> FALSE, font |-> FALSE])

\* the close macros a returned line has after the text of its fragments
Appended == SubSeq(result, Len(join(parts)) + 1, Len(result))

\* the positions of a text at which a color (font) macro starts: "$" or "${",
\* then the macro's name
MacroStarts(s, name) ==
    {i \in 1..Len(s) :
        /\ s[i] = "$"
        /\ \/ HasAt(s, i + 1, name)
           \/ HasAt(s, i + 1, <<"{">>) /\ HasAt(s, i + 2, name)}

\* a fragment has no such macro, or its last one is the close form ${name}
LastIsCloseForm(s, name) ==
    \/ MacroStarts(s, name) = {}
    \/ HasAt(s, Max(MacroStarts(s, name)), <<"$", "{">> \o name \o <<"}">>)

\* C1: every line returned by line is self-contained. If the last color macro of
\* the fragments' text opens a color, the line ends with an appended ${color},
\* and likewise ${font} for the last font macro; so in the returned line the last
\* color macro and the last font macro are close forms.
C1_LineClosesOpenStyles ==
    Returned =>
        /\ OpenStyles(join(parts)).color =>
               Appended \in {CLOSE_COLOR, CLOSE_COLOR \o CLOSE_FONT}
        /\ OpenStyles(join(parts)).font =>
               Appended \in {CLOSE_FONT, CLOSE_COLOR \o CLOSE_FONT}
        /\ ~OpenStyles(result).color
        /\ ~OpenStyles(result).font

\* C2: when every fragment has no color macro or has the close form ${color} as
\* its last color macro, whatever text follows that macro, line appends no
\* ${color}; and likewise for font and ${font}.
C2_NoCloseAfterClosedFragments ==
    Returned =>
        /\ (\A i \in 1..Len(parts) : LastIsCloseForm(parts[i], kw_color)) =>
               Appended \in {<<>>, CLOSE_FONT}
        /\ (\A i \in 1..Len(parts) : LastIsCloseForm(parts[i], kw_font)) =>
               Appended \in {<<>>, CLOSE_COLOR}

\* C3: line is idempotent: a returned line passed to line again as a single
\* fragment comes back unchanged.
C3_LineIdempotent == pc = "relined" => relined = result

---------------------------------------------------------------------------
(* Block assembly: the claims about block and the line buffer. *)

IsPrefix(a, b) == Len(a) <= Len(b) /\ SubSeq(b, 1, Len(a)) = a

EndsWith(s, suffix) ==
    Len(suffix) <= Len(s) /\ SubSeq(s, Len(s) - Len(suffix) + 1, Len(s)) = suffix

\* a step that is a call of block, a call of set_parameters
BlockStep == nblocks' = nblocks + 1
MergeStep == Len(merges') = Len(merges) + 1

\* the leaf strings of a hierarchy, depth first and left to right, by a walk
\* with an explicit stack
RECURSIVE Walk(_, _)
Walk(stack, leaves) ==
    IF stack = <<>> THEN leaves
    ELSE IF Head(stack).t = "list" THEN Walk(Head(stack).v \o Tail(stack), leaves)
    ELSE Walk(Tail(stack), Append(leaves, Head(stack)))

Leaves(lines) == Walk(<<lines>>, <<>>)

\* the lines the block call of this step is to add in front of its content lines
SeparatorDue == IF conky_text_lines # <<>> THEN 1 ELSE 0
HeadingDue == IF last'.heading # None THEN 1 ELSE 0

\* C4: the buffer never starts or ends with a separator, no two separators are
\* adjacent, and the lines of two different blocks are never adjacent: there is
\* exactly one blank separator line between two consecutive non-empty blocks.
C4_OneSeparatorBetweenBlocks ==
    raised = "none" =>
        /\ \A i \in 1..Len(kinds) :
               kinds[i].kind = "separator" =>
                   /\ conky_text_lines[i] = <<>>
                   /\ i # 1
                   /\ i # Len(kinds)
                   /\ kinds[i + 1].kind # "separator"
        /\ \A i \in 1..(Len(kinds) - 1) :
               (kinds[i].kind # "separator" /\ kinds[i + 1].kind # "separator") =>
                   kinds[i].block = kinds[i + 1].block

\* the heading line of C5, written out: heading color macro, heading font
\* macro, the heading and one space, the rule, close-color, close-font
HeadingLineText(params, heading) ==
    <<"$", "{", "c", "o", "l", "o", "r", " ", "#">> \o params.color_heading.v \o <<"}">>
    \o <<"$", "{", "f", "o", "n", "t", " ">> \o params.font_heading.v \o <<"}">>
    \o heading.v \o <<" ">>
    \o <<"$", "h", "r">>
    \o <<"$", "{", "c", "o", "l", "o", "r", "}">>
    \o <<"$", "{", "f", "o", "n", "t", "}">>

\* C5: a block call without vertical offset extends the buffer by one blank
\* separator exactly when the buffer was not empty, then the heading line when a
\* heading is given (and no heading line otherwise), then line applied to each
\* content line, in argument order.
C5_BlockAppendsInOrder ==
    [][(BlockStep /\ ~truthy(last'.vertical_offset)) =>
        conky_text_lines' =
            conky_text_lines
            \o (IF conky_text_lines # <<>> THEN <<<<>>>> ELSE <<>>)
            \o (IF last'.heading # None
                    THEN <<HeadingLineText(parameters, last'.heading)>> ELSE <<>>)
            \o [i \in 1..Len(Leaves(last'.lines)) |-> line(<<Leaves(last'.lines)[i].v>>)]
      ]_vars

C5_Witness ==
    /\ last.op = "block"
    /\ last.heading # None
    /\ ~truthy(last.vertical_offset)
    /\ Len(Leaves(last.lines)) >= 2
    /\ \E i \in 1..Len(kinds) : kinds[i] = [kind |-> "separator", block |-> nblocks]
    /\ Len(merges) >= 1
    /\ parameters.color_heading # DEFAULT_FORMATTER_PARAMETERS.color_heading

\* C6: the line buffer is append-only: whatever the operation, the buffer before
\* it is a prefix of the buffer after it.
C6_BufferAppendOnly == [][IsPrefix(conky_text_lines, conky_text_lines')]_vars

C6_Witness ==
    /\ last.op = "block"
    /\ truthy(last.vertical_offset)
    /\ raised = "none"
    /\ nblocks >= 2
    /\ Len(merges) >= 1
    /\ Len(conky_text_lines) >= 3

\* C7: block flattens its arguments depth first and left to right: it appends
\* one content line per leaf string, line applied to that leaf alone, in
\* traversal order, and an empty nested sequence adds no line.
C7_BlockFlattensDepthFirst ==
    [][BlockStep =>
        LET leaves == Leaves(last'.lines)
            base == Len(conky_text_lines) + SeparatorDue + HeadingDue
        IN  /\ Len(conky_text_lines') = base + Len(leaves)
            /\ \A i \in 1..Len(leaves) :
                   IF i = 1 /\ HeadingDue = 0 /\ truthy(last'.vertical_offset)
                       THEN EndsWith(conky_text_lines'[base + i], line(<<leaves[i].v>>))
                       ELSE conky_text_lines'[base + i] = line(<<leaves[i].v>>)
      ]_vars

C7_Witness ==
    /\ last.op = "block"
    /\ \E i \in 1..Len(last.lines.v) :
           /\ last.lines.v[i].t = "list"
           /\ \E j \in 1..Len(last.lines.v[i].v) : last.lines.v[i].v[j] = PyList(<<>>)
    /\ Len(Leaves(last.lines)) = 3
    /\ nblocks >= 2
    /\ raised = "none"

\* '${voffset 12}'
voffset_12 == <<"$", "{", "v", "o", "f", "f", "s", "e", "t", " ", "1", "2", "}">>

\* C8: a vertical offset adds no line: the block appends as many lines as
\* without it. With offset 12 the first line the block emits (the heading line,
\* or else the first content line) is the same line prefixed with
\* '${voffset 12}' and every other line is as without the offset; an offset of 0
\* or no offset changes nothing.
C8_OffsetPrefixesFirstLine ==
    [][BlockStep =>
        LET plain == block(conky_text_lines, parameters, last'.lines, last'.heading, None).lines
            first == Len(conky_text_lines) + SeparatorDue + 1
        IN  /\ Len(conky_text_lines') = Len(plain)
            /\ last'.vertical_offset \in {None, PyInt(0)} => conky_text_lines' = plain
            /\ (last'.vertical_offset = PyInt(12) /\ first <= Len(plain)) =>
                   conky_text_lines' = [plain EXCEPT ![first] = voffset_12 \o plain[first]]
      ]_vars

C8_Witness ==
    /\ last.op = "block"
    /\ last.vertical_offset = PyInt(12)
    /\ raised = "none"
    /\ nblocks >= 2
    /\ \E i \in 1..Len(kinds) :
           /\ kinds[i] = [kind |-> "separator", block |-> nblocks]
           /\ IsPrefix(voffset_12, conky_text_lines[i + 1])

---------------------------------------------------------------------------
(* The parameter merge: the claims about set_parameters. *)

IsEmpty(value) == value = PyStr(<<>>)

\* C9 as stated: set_parameters changes exactly the fields the partial record
\* provides, and a field given as absent or empty never replaces the live value.
C9_AbsentOrEmptyNeverReplaces ==
    [][MergeStep =>
        \A f \in Fields :
            parameters'[f] =
                IF last'.partial[f] = None \/ IsEmpty(last'.partial[f])
                    THEN parameters[f] ELSE last'.partial[f]
      ]_vars

\* C9 as amended: set_parameters changes exactly the fields the partial record
\* gives as not None: each such field takes the given value, an empty string or
\* a zero included, and every field given as None keeps its live value.
C9_ExactlyProvidedFieldsChange ==
    [][MergeStep =>
        \A f \in Fields :
            parameters'[f] =
                IF last'.partial[f] = None THEN parameters[f] ELSE last'.partial[f]
      ]_vars

C9_Witness ==
    /\ last.op = "set_parameters"
    /\ last.partial.color_heading = PyStr(<<>>)
    /\ last.partial.meter_width = None
    /\ parameters.color_heading = PyStr(<<>>)
    /\ parameters.meter_width = PyInt(50)

\* the value the last merge that provided field f gave it, or the value the
\* field had after construction when no merge provided it
LastProvided(f) ==
    LET providing == {i \in 1..Len(merges) : merges[i][f] # None}
    IN  IF providing = {} THEN constructed[f] ELSE merges[Max(providing)][f]

\* the fields a partial record provides
Provided(partial) == {f \in Fields : partial[f] # None}

\* the live record after the merges ms are made on live, in this order; each
\* merge yields a whole record before the next one is made
RECURSIVE Replay(_, _)
Replay(live, ms) ==
    IF ms = <<>> THEN live
    ELSE LET merged == set_parameters(live, Head(ms))
         IN  IF DOMAIN merged = Fields THEN Replay(merged, Tail(ms)) ELSE merged

\* the merges made, with the last two in the other order
LastTwoSwapped ==
    SubSeq(merges, 1, Len(merges) - 2) \o <<merges[Len(merges)], merges[Len(merges) - 1]>>

\* C10: after any sequence of set_parameters calls every live field holds the
\* value of the last call that provided it, or its value after construction,
\* and no live field is None; when the last two merges provide disjoint fields,
\* making them in the other order gives the same live record.
C10_LastMergeWinsPerField ==
    /\ \A f \in Fields : parameters[f] = LastProvided(f) /\ parameters[f] # None
    /\ (/\ Len(merges) >= 2
        /\ Provided(merges[Len(merges)]) \cap Provided(merges[Len(merges) - 1]) = {}) =>
           parameters = Replay(constructed, LastTwoSwapped)

C10_Witness ==
    /\ Len(merges) >= 3
    /\ merges[1].color_heading # None
    /\ merges[1].meter_width # None
    /\ merges[2].color_heading # None
    /\ merges[2].color_heading # merges[1].color_heading
    /\ merges[2].meter_width = None
    /\ Provided(merges[3]) = {"placement"}
    /\ Provided(merges[2]) \cap Provided(merges[3]) = {}
    /\ constructed.placement # DEFAULT_FORMATTER_PARAMETERS.placement
    /\ constructed.placement # parameters.placement

---------------------------------------------------------------------------
(* The primitives: the claims about exec, meter, color and font. *)

\* '${exec <command>}' and '${execi <n> <command>}'
ExecMacro(command) == <<"$", "{", "e", "x", "e", "c", " ">> \o command.v \o <<"}">>
ExeciMacro(n, command) == <<"$", "{", "e", "x", "e", "c", "i", " ">> \o format_d(n) \o <<" ">> \o command.v \o <<"}">>

\* C11 as stated: exec with interval 0 returns the always-run macro, with the
\* interval omitted the throttled macro with the default interval of 3600, and
\* with an interval above 0 the throttled macro with that interval.
C11_ExecByInterval ==
    last.op = "exec" =>
        last.returned =
            IF last.interval = None THEN ExeciMacro(3600, last.command)
            ELSE IF last.interval.v = 0 THEN ExecMacro(last.command)
            ELSE ExeciMacro(last.interval.v, last.command)

\* C11 as amended: exec with the interval omitted returns the always-run macro
\* '${exec command}', and with any interval given, 0 included, the throttled
\* macro '${execi interval command}'.
C11_ExecByIntervalPresence ==
    last.op = "exec" =>
        last.returned =
            IF last.interval = None THEN ExecMacro(last.command)
            ELSE ExeciMacro(last.interval.v, last.command)

C11_Witness ==
    /\ last.op = "exec"
    /\ last.command = uptime
    /\ last.interval = PyInt(0)
    /\ last.returned = <<"$", "{", "e", "x", "e", "c", "i", " ", "0", " ", "u", "p", "t", "i", "m", "e", "}">>
    /\ Len(merges) > 0

\* '${<type>[ <param>] <height>,<width>' : the graph macro up to its colors
GraphHead(graph_type, param, height, width) ==
    <<"$", "{">> \o graph_type.v
    \o (IF param = None \/ param.v = <<>> THEN <<>> ELSE <<" ">> \o param.v)
    \o <<" ">> \o format_d(height.v) \o <<",">> \o format_d(width.v)

\* '${color #<spec>}'
ColorSet(spec) == <<"$", "{", "c", "o", "l", "o", "r", " ", "#">> \o spec.v \o <<"}">>

\* C12 as stated: with one gradient color and no border color given, meter
\* returns the graph macro alone, '${type[ param] height,width color}': no
\* color-set prefix, the color once.
C12_MeterGraphMacroAlone ==
    last.op = "meter" =>
        last.returned =
            GraphHead(last.graph_type, last.param, last.height, last.width)
                \o <<" ">> \o last.color.v \o <<"}">>

\* C12 as amended: meter returns the color-set macro of the live graph border
\* color, then one graph macro '${type[ param] height,width color color}' with
\* the given color twice; height precedes width and the param is omitted when
\* absent or empty; cpu_meter is that meter for 'cpugraph', the live cpu color,
\* the live meter width and height and the param 'cpu<n>'.
C12_MeterBorderThenGraph ==
    /\ last.op = "meter" =>
           last.returned =
               ColorSet(parameters.color_graph_border)
                   \o GraphHead(last.graph_type, last.param, last.height, last.width)
                   \o <<" ">> \o last.color.v \o <<" ">> \o last.color.v \o <<"}">>
    /\ last.op = "cpu_meter" =>
           last.returned =
               ColorSet(parameters.color_graph_border)
                   \o GraphHead(cpugraph, PyStr(<<"c", "p", "u">> \o format_d(last.cpu_number.v)),
                                parameters.meter_height, parameters.meter_width)
                   \o <<" ">> \o parameters.color_cpu.v \o <<" ">> \o parameters.color_cpu.v
                   \o <<"}">>

C12_Witness ==
    /\ last.op = "meter"
    /\ last.graph_type = cpugraph
    /\ last.width = PyInt(100)
    /\ last.height = PyInt(25)
    /\ last.param = cpu0
    /\ last.color = ff0000
    /\ parameters.color_graph_border = PyStr(<<"4", "0", "4", "0", "4", "0">>)
    /\ last.returned = <<"$", "{", "c", "o", "l", "o", "r", " ", "#", "4", "0", "4", "0", "4", "0", "}", "$", "{", "c", "p", "u", "g", "r", "a", "p", "h", " ", "c", "p", "u", "0", " ", "2", "5", ",", "1", "0", "0", " ", "f", "f", "0", "0", "0", "0", " ", "f", "f", "0", "0", "0", "0", "}">>

\* C13: in every state of the formatter color(None) returns '${color}' and
\* font(None) returns '${font}'; for a present spec color returns '${color<n>}'
\* for an integer n and '${color #<spec>}' for any other spec, used literally,
\* and font returns '${font <spec>}'.
C13_ColorFontForms ==
    /\ last.op = "color" =>
           last.returned =
               IF last.color_spec = None THEN <<"$", "{", "c", "o", "l", "o", "r", "}">>
               ELSE IF last.color_spec.t = "int"
                   THEN <<"$", "{", "c", "o", "l", "o", "r">> \o format_d(last.color_spec.v) \o <<"}">>
               ELSE <<"$", "{", "c", "o", "l", "o", "r", " ", "#">> \o last.color_spec.v \o <<"}">>
    /\ last.op = "font" =>
           last.returned =
               IF last.font_spec = None THEN <<"$", "{", "f", "o", "n", "t", "}">>
               ELSE <<"$", "{", "f", "o", "n", "t", " ">> \o last.font_spec.v \o <<"}">>

C13_Witness ==
    /\ last.op = "color"
    /\ last.color_spec = None
    /\ last.returned = <<"$", "{", "c", "o", "l", "o", "r", "}">>
    /\ conky_text_lines # <<>>
    /\ parameters # constructed

---------------------------------------------------------------------------
(* The parameter tree: the claim about lookups. *)

\* the lookup of this state was made on a mapping that lacks, that has the key
AbsentKey == last.op = "lookup" /\ last.target.t = "ConfigDict"
                 /\ last.name \notin DOMAIN last.target.v
PresentKey == last.op = "lookup" /\ last.target.t = "ConfigDict"
                  /\ last.name \in DOMAIN last.target.v

\* w is raw with its mappings wrapped and its list elements wrapped in order
RECURSIVE IsWrapOf(_, _)
IsWrapOf(w, raw) ==
    IF raw.t \in {"dict", "ConfigDict"} THEN w = [t |-> "ConfigDict", v |-> raw.v]
    ELSE IF raw.t = "list"
        THEN /\ w.t = "list"
             /\ Len(w.v) = Len(raw.v)
             /\ \A i \in 1..Len(raw.v) : IsWrapOf(w.v[i], raw.v[i])
    ELSE w = raw

---------------------------------------------------------------------------
(* Document assembly: the claims about the generated document. *)

\* the positions of the line separators in a text, in increasing order
Breaks(s) ==
    LET IsBreak(i) == s[i] = "\n"
    IN  SelectSeq([i \in 1..Len(s) |-> i], IsBreak)

\* the output lines of a text: what stands between its line separators
OutputLines(s) ==
    LET at == Breaks(s)
    IN  [k \in 1..(Len(at) + 1) |->
            SubSeq(s, (IF k = 1 THEN 0 ELSE at[k - 1]) + 1,
                      (IF k > Len(at) THEN Len(s) + 1 ELSE at[k]) - 1)]

\* the number of output lines of the settings section: the opening line, one
\* line for each base option and each of the ten live options, the closing line
SettingsLines == 1 + Len(BASE_CONFIGURATION) + 10 + 1

\* C15: the generated document is the settings section, a blank line, then the
\* text section: the opening delimiter, every line of the buffer in buffer
\* order, one per output line, blank separator lines included, and the closing
\* delimiter.
C15_TextSectionIsBuffer ==
    output # None =>
        LET doc == OutputLines(output.v)
            n == Len(conky_text_lines)
        IN  /\ Len(doc) = SettingsLines + 1 + 1 + n + 1
            /\ doc[1] = <<"c", "o", "n", "k", "y", ".", "c", "o", "n", "f", "i", "g", " ", "=", " ", "{">>
            /\ doc[SettingsLines] = <<"}">>
            /\ doc[SettingsLines + 1] = <<>>
            /\ doc[SettingsLines + 2] = <<"c", "o", "n", "k", "y", ".", "t", "e", "x", "t", " ", "=", " ", "[", "[">>
            /\ \A i \in 1..n : doc[SettingsLines + 2 + i] = conky_text_lines[i]
            /\ doc[SettingsLines + 2 + n + 1] = <<"]", "]">>

C15_Witness ==
    /\ output # None
    /\ nblocks >= 2
    /\ Len(conky_text_lines) >= 3
    /\ \E i \in 2..(Len(conky_text_lines) - 1) : conky_text_lines[i] = <<>>

\* the live options of the settings section: the name of each and the live
\* parameter it shows
LiveOptions ==
    <<<<<<"a", "l", "i", "g", "n", "m", "e", "n", "t">>, parameters.placement>>,
      <<<<"b", "o", "r", "d", "e", "r", "_", "o", "u", "t", "e", "r", "_", "m", "a", "r", "g", "i", "n">>, parameters.window_outer_margin>>,
      <<<<"d", "e", "f", "a", "u", "l", "t", "_", "c", "o", "l", "o", "r">>, parameters.color_default>>,
      <<<<"d", "e", "f", "a", "u", "l", "t", "_", "o", "u", "t", "l", "i", "n", "e", "_", "c", "o", "l", "o", "r">>, parameters.color_outline>>,
      <<<<"f", "o", "n", "t">>, parameters.font_default>>,
      <<<<"g", "a", "p", "_", "x">>, parameters.window_gap>>,
      <<<<"g", "a", "p", "_", "y">>, parameters.window_gap>>,
      <<<<"u", "p", "d", "a", "t", "e", "_", "i", "n", "t", "e", "r", "v", "a", "l">>, parameters.interval_refresh>>,
      <<<<"m", "i", "n", "i", "m", "u", "m", "_", "w", "i", "d", "t", "h">>, parameters.window_width_min>>,
      <<<<"m", "i", "n", "i", "m", "u", "m", "_", "h", "e", "i", "g", "h", "t">>, parameters.window_height_min>>>>

\* a value as the settings section writes it: a string in single quotes, a
\* boolean as lowercase true or false, any other value as a bare numeral
Rendered(value) ==
    IF value.t = "str" THEN <<"'">> \o value.v \o <<"'">>
    ELSE IF value.t = "bool" THEN (IF value.v THEN <<"t", "r", "u", "e">> ELSE <<"f", "a", "l", "s", "e">>)
    ELSE format_d(value.v)

\* C16: the settings section is the opening line, then one line
\* '    name = value' for each base option and each live option as it is at
\* generation time, a string value in single quotes, a boolean as lowercase
\* true or false, any other value as a bare numeral, every entry but the last
\* followed by a comma, then the closing '}'.
C16_SettingsSectionEntries ==
    output # None =>
        LET doc == OutputLines(output.v)
            options == BASE_CONFIGURATION \o LiveOptions
        IN  /\ Len(options) + 2 = SettingsLines
            /\ doc[1] = <<"c", "o", "n", "k", "y", ".", "c", "o", "n", "f", "i", "g", " ", "=", " ", "{">>
            /\ \A k \in 1..Len(options) :
                   doc[1 + k] = <<" ", " ", " ", " ">> \o options[k][1] \o <<" ", "=", " ">>
                                    \o Rendered(options[k][2])
                                    \o (IF k < Len(options) THEN <<",">> ELSE <<>>)
            /\ doc[SettingsLines] = <<"}">>

C16_Witness ==
    /\ output # None
    /\ parameters.placement # constructed.placement
    /\ parameters.color_default = PyStr(<<>>)
    /\ parameters.window_gap = PyInt(0)

---------------------------------------------------------------------------
(* Line assembly: the claim about fragment boundaries. *)

\* C17: the line returned for fragments is the line returned for their
\* concatenation given as one fragment: where the fragment boundaries fall
\* does not change whether close macros are appended.
C17_LineIgnoresFragmentBoundaries ==
    pc # "start" => result = line(<<join(parts)>>)

---------------------------------------------------------------------------
(* Block assembly: the claim about failing block calls. *)

\* C18: every block call completes without an exception, also one with no
\* heading, no content lines and a non-zero vertical offset; and a block call
\* that fails leaves the buffer as it was, without a separator line appended.
C18_BlockNeverFails ==
    [][/\ raised' = "none"
       /\ raised' # "none" => conky_text_lines' = conky_text_lines]_vars

---------------------------------------------------------------------------
(* Instances: the claim about isolation. *)

\* the live parameters and the line buffer of an instance, in a heap
LiveOf(heap, instance) ==
    [parameters |-> heap[instance.parameters],
     conky_text_lines |-> heap[instance.conky_text_lines]]

\* C19: no construction, set_parameters or block call on a formatter changes
\* the default parameter record, or the live parameters or the line buffer of
\* another formatter; and a formatter constructed from a tree with no overrides
\* has every field equal to the built-in default and an empty buffer.
C19_InstancesIsolated ==
    [][/\ objects'[DEFAULT_REF] = DEFAULT_FORMATTER_PARAMETERS
       /\ \A j \in 1..Len(instances) :
              j # last'.instance => LiveOf(objects', instances'[j]) = LiveOf(objects, instances[j])
       /\ (last'.op = "init" /\ last'.tree = [t |-> "ConfigDict", v |-> <<>>]) =>
              LiveOf(objects', instances'[last'.instance]) =
                  [parameters |-> DEFAULT_FORMATTER_PARAMETERS, conky_text_lines |-> <<>>]]_vars

C19_Witness ==
    /\ Len(instances) = 2
    /\ last.op = "init"
    /\ last.instance = 2
    /\ last.tree = [t |-> "ConfigDict", v |-> <<>>]
    /\ LiveOf(objects, instances[1]).parameters.color_heading
           # DEFAULT_FORMATTER_PARAMETERS.color_heading
    /\ LiveOf(objects, instances[1]).parameters.placement
           # DEFAULT_FORMATTER_PARAMETERS.placement
    /\ LiveOf(objects, instances[1]).conky_text_lines # <<>>
    /\ LiveOf(objects, instances[2]).parameters = DEFAULT_FORMATTER_PARAMETERS
    /\ LiveOf(objects, instances[2]).conky_text_lines = <<>>

====
